---- MODULE Spec2Model ----
(***************************************************************************)
(* A model of the dungeon simulation in src/main.rs: the entity registry,  *)
(* combat and death resolution, movement, item pick-up and use, the        *)
(* monsters' decision procedure and the main loop's turn scheduling.       *)
(*                                                                         *)
(* Rust indexes the registry from 0; sequences here are indexed from 1,    *)
(* so the player (PLAYER = 0 in the source) sits at index 1.               *)
(* Option<T> is modelled as a sequence of length 0 (None) or 1 (Some).     *)
(***************************************************************************)
EXTENDS Integers, Sequences, FiniteSets, TLC

VARIABLES
    objects,      \* the registry: Vec<Object> of main()
    inventory,    \* Vec<Object> of picked-up items
    map,          \* Vec<Vec<Tile>>: map[<<x, y>>] is the tile map[x][y]
    fov,          \* the tiles tcod.fov currently reports in the field of view
    previous_player_position,
    key,          \* the `key` local of main(): the last key event read
    player_action,\* what handle_keys returned last
    pc,           \* where main() stands: "make_map", "generated", "frame",
                  \* "keys", "ai", "done", "panic"
    ai_id,        \* the index of the monster loop of main()
    messages,     \* the messages the last step pushed onto the log
    call,         \* the operation the last step of the call harness applied
    rooms,        \* the `rooms` local of make_map: the rooms accepted so far
    gen           \* where make_map stands: see GenState

vars == <<objects, inventory, map, fov, previous_player_position, key,
          player_action, pc, ai_id, messages, call, rooms, gen>>

----------------------------------------------------------------------------
(* Bounds of the model *)

\* the map is MapWidth x MapHeight tiles (80 x 43 in the source)
MapWidth == 6
MapHeight == 6

\* make_map tries MAX_ROOMS candidate rooms (30 in the source) of
\* ROOM_MIN_SIZE .. ROOM_MAX_SIZE tiles a side (6 .. 10 in the source)
MAX_ROOMS == 3
ROOM_MIN_SIZE == 2
ROOM_MAX_SIZE == 3

\* place_objects draws up to MAX_ROOM_MONSTERS monsters (3 in the source)
\* and MAX_ROOM_ITEMS items (2 in the source) for a room
MAX_ROOM_MONSTERS == 2
MAX_ROOM_ITEMS == 1

\* The whole program, make_map and the main loop after it, is run on a
\* build of its own: a map of MainWidth x MainHeight tiles, MainMaxRooms
\* candidate rooms of MainRoomSize tiles a side, up to MainRoomMonsters
\* monsters and MainRoomItems items a room, and a player of MainMaxHp hit
\* points (30 in the source).
MainWidth == 6
MainHeight == 4
MainMaxRooms == 2
MainRoomSize == 2
MainRoomMonsters == 2
MainRoomItems == 1
MainMaxHp == 6

(* Program constants *)
PLAYER == 1
HEAL_AMOUNT == 4
TORCH_RADIUS == 10
InventoryCap == 26

----------------------------------------------------------------------------
(* Option<T> *)
None == <<>>
Some(v) == <<v>>
IsSome(o) == Len(o) = 1
Unwrap(o) == o[1]

Max(a, b) == IF a >= b THEN a ELSE b
Min(a, b) == IF a <= b THEN a ELSE b
Abs(a) == IF a < 0 THEN -a ELSE a
Sign(a) == IF a > 0 THEN 1 ELSE IF a < 0 THEN -1 ELSE 0

----------------------------------------------------------------------------
(* The map *)

Tiles == (0 .. MapWidth - 1) \X (0 .. MapHeight - 1)

TileEmpty == [blocked |-> FALSE, explored |-> FALSE, block_sight |-> FALSE]
TileWall == [blocked |-> TRUE, explored |-> FALSE, block_sight |-> TRUE]

\* Rect::new and Rect::center
RectNew(x, y, w, h) == [x1 |-> x, y1 |-> y, x2 |-> x + w, y2 |-> y + h]
Center(r) == <<(r.x1 + r.x2) \div 2, (r.y1 + r.y2) \div 2>>

\* a rectangle that shares a column only to the left and right of another
\* or a row only above and below is let through
intersects_with_strictly(self, other) ==
    /\ self.x1 < other.x2 /\ self.x2 > other.x1
    /\ self.y1 < other.y2 /\ self.y2 > other.y1

intersects_with(self, other) ==
    /\ self.x1 <= other.x2 /\ self.x2 >= other.x1
    /\ self.y1 <= other.y2 /\ self.y2 >= other.y1

\* a map with no wall at all
AllFloor == [t \in Tiles |-> [blocked |-> FALSE, explored |-> FALSE,
                              block_sight |-> FALSE]]

\* vec![vec![Tile::wall(); MAP_HEIGHT]; MAP_WIDTH]
AllWalls == [t \in Tiles |-> TileWall]

create_room(room, m) ==
    [t \in DOMAIN m |->
        IF /\ t[1] \in (room.x1 + 1) .. (room.x2 - 1)
           /\ t[2] \in (room.y1 + 1) .. (room.y2 - 1)
        THEN TileEmpty ELSE m[t]]

create_h_tunnel(x1, x2, y, m) ==
    [t \in DOMAIN m |->
        IF t[1] \in Min(x1, x2) .. Max(x1, x2) /\ t[2] = y
        THEN TileEmpty ELSE m[t]]

create_v_tunnel(y1, y2, x, m) ==
    [t \in DOMAIN m |->
        IF t[2] \in Min(y1, y2) .. Max(y1, y2) /\ t[1] = x
        THEN TileEmpty ELSE m[t]]

----------------------------------------------------------------------------
(* Messages: message(messages, text, color) appends one line.  A line is   *)
(* kept as its format string and its arguments.                            *)
Msg(text, who, whom, amount) ==
    [text |-> text, who |-> who, whom |-> whom, amount |-> amount]

----------------------------------------------------------------------------
(* Objects *)

ObjectNew(x, y, char, name, color, blocks) ==
    [x |-> x, y |-> y, char |-> char, color |-> color, name |-> name,
     blocks |-> blocks, alive |-> FALSE,
     fighter |-> None, ai |-> None, item |-> None]

Pos(o) == <<o.x, o.y>>

set_pos(o, x, y) == [o EXCEPT !.x = x, !.y = y]

\* the square of Object::distance_to
Dist2(a, b) == (b.x - a.x) * (b.x - a.x) + (b.y - a.y) * (b.y - a.y)

\* distance_to(..) >= 2.0, as (dx^2 + dy^2) >= 4 (the f32 sqrt is exact here)
distance_at_least_2(a, b) == Dist2(a, b) >= 4

player_death(player) ==
    [obj |-> [player EXCEPT !.char = "%", !.color = "DARK_RED"],
     msgs |-> <<Msg("You died!", "", "", 0)>>]

\* a monster_death that leaves the Fighter and AI capabilities in place
monster_death_keeps_fighter(monster) ==
    [obj |-> [monster EXCEPT !.char = "%", !.color = "DARK_RED",
                             !.blocks = FALSE,
                             !.name = "remains of " \o monster.name],
     msgs |-> <<Msg("{} is dead!", monster.name, "", 0)>>]

\* a monster_death that leaves the name as it was
monster_death_no_rename(monster) ==
    [obj |-> [monster EXCEPT !.char = "%", !.color = "DARK_RED",
                             !.blocks = FALSE, !.fighter = None, !.ai = None],
     msgs |-> <<Msg("{} is dead!", monster.name, "", 0)>>]

monster_death(monster) ==
    [obj |-> [monster EXCEPT !.char = "%", !.color = "DARK_RED",
                             !.blocks = FALSE, !.fighter = None, !.ai = None,
                             !.name = "remains of " \o monster.name],
     msgs |-> <<Msg("{} is dead!", monster.name, "", 0)>>]

\* DeathCallBack::callback
callback(on_death, object) ==
    IF on_death = "Player" THEN player_death(object) ELSE monster_death(object)

\* a take_damage that runs the death callback and leaves alive as it is
take_damage_leaves_alive(self, damage) ==
    LET hit == IF IsSome(self.fighter) /\ damage > 0
               THEN [self EXCEPT !.fighter =
                        Some([Unwrap(@) EXCEPT !.hp = @ - damage])]
               ELSE self
    IN  IF IsSome(hit.fighter) /\ Unwrap(hit.fighter).hp <= 0
        THEN callback(Unwrap(hit.fighter).on_death, hit)
        ELSE [obj |-> hit, msgs |-> <<>>]

take_damage(self, damage) ==
    LET hit == IF IsSome(self.fighter) /\ damage > 0
               THEN [self EXCEPT !.fighter =
                        Some([Unwrap(@) EXCEPT !.hp = @ - damage])]
               ELSE self
    IN  IF IsSome(hit.fighter) /\ Unwrap(hit.fighter).hp <= 0
        THEN callback(Unwrap(hit.fighter).on_death, [hit EXCEPT !.alive = FALSE])
        ELSE [obj |-> hit, msgs |-> <<>>]

heal(self, amount) ==
    IF IsSome(self.fighter)
    THEN LET f == Unwrap(self.fighter)
             raised == f.hp + amount
         IN  [self EXCEPT !.fighter =
                 Some([f EXCEPT !.hp = IF raised > f.max_hp THEN f.max_hp
                                       ELSE raised])]
    ELSE self

\* fighter.map_or(0, |f| f.power) and fighter.map_or(0, |f| f.defense)
PowerOf(o) == IF IsSome(o.fighter) THEN Unwrap(o.fighter).power ELSE 0
DefenseOf(o) == IF IsSome(o.fighter) THEN Unwrap(o.fighter).defense ELSE 0

\* an attack that deals the full power of the attacker
attack_ignores_defense(self, target) ==
    LET damage == PowerOf(self)
    IN  IF damage > 0
        THEN LET r == take_damage(target, damage)
             IN  [obj |-> r.obj,
                  msgs |-> <<Msg("{} attacks {} for {} hit points.",
                                 self.name, target.name, damage)>> \o r.msgs]
        ELSE [obj |-> target,
              msgs |-> <<Msg("{} attacks {} but it has no effect!",
                             self.name, target.name, 0)>>]

\* Object::attack: the target after the attack, and the messages pushed
attack(self, target) ==
    LET damage == PowerOf(self) - DefenseOf(target)
    IN  IF damage > 0
        THEN LET r == take_damage(target, damage)
             IN  [obj |-> r.obj,
                  msgs |-> <<Msg("{} attacks {} for {} hit points.",
                                 self.name, target.name, damage)>> \o r.msgs]
        ELSE [obj |-> target,
              msgs |-> <<Msg("{} attacks {} but it has no effect!",
                             self.name, target.name, 0)>>]

----------------------------------------------------------------------------
(* mut_two: the two elements, through the split at the larger index; the   *)
(* assertion first_index != second_index aborts the program.               *)
mut_two_panics(first_index, second_index) == first_index = second_index

\* a mut_two that hands the pair out in the order of the slices
mut_two_in_slice_order(first_index, second_index, items) ==
    LET split_at_index == Max(first_index, second_index)
        first_slice == SubSeq(items, 1, split_at_index - 1)
        second_slice == SubSeq(items, split_at_index, Len(items))
    IN  <<first_slice[Min(first_index, second_index)], second_slice[1]>>

mut_two(first_index, second_index, items) ==
    LET split_at_index == Max(first_index, second_index)
        first_slice == SubSeq(items, 1, split_at_index - 1)
        second_slice == SubSeq(items, split_at_index, Len(items))
    IN  IF first_index < second_index
        THEN <<first_slice[first_index], second_slice[1]>>
        ELSE <<second_slice[1], first_slice[second_index]>>

----------------------------------------------------------------------------
(* The registry *)

Indices(objs) == 1 .. Len(objs)

\* iter().position(pred): the first index that satisfies it, as an Option
FirstFighterAt(objs, x, y) ==
    LET hits == {i \in Indices(objs) :
                    IsSome(objs[i].fighter) /\ Pos(objs[i]) = <<x, y>>}
    IN  IF hits = {} THEN None
        ELSE Some(CHOOSE i \in hits : \A j \in hits : i <= j)

FirstItemAt(objs, x, y) ==
    LET hits == {i \in Indices(objs) :
                    Pos(objs[i]) = <<x, y>> /\ IsSome(objs[i].item)}
    IN  IF hits = {} THEN None
        ELSE Some(CHOOSE i \in hits : \A j \in hits : i <= j)

\* map[x as usize][y as usize] aborts outside the map
index_panics(x, y, m) == <<x, y>> \notin DOMAIN m

\* an is_blocked that looks at the tile only
is_blocked_ignores_objects(x, y, m, objs) == m[<<x, y>>].blocked

\* an is_blocked that looks at the entities only
is_blocked_by_objects_only(x, y, m, objs) ==
    \E i \in Indices(objs) : objs[i].blocks /\ Pos(objs[i]) = <<x, y>>

is_blocked(x, y, m, objs) ==
    \/ m[<<x, y>>].blocked
    \/ \E i \in Indices(objs) : objs[i].blocks /\ Pos(objs[i]) = <<x, y>>

\* a move_by that does not ask is_blocked
move_by_unchecked(id, dx, dy, m, objs) ==
    [objs EXCEPT ![id] = set_pos(@, @.x + dx, @.y + dy)]

move_by(id, dx, dy, m, objs) ==
    LET x == objs[id].x
        y == objs[id].y
    IN  IF ~is_blocked(x + dx, y + dy, m, objs)
        THEN [objs EXCEPT ![id] = set_pos(@, x + dx, y + dy)]
        ELSE objs

\* a result of an operation on the registry
Result(objs, msgs, panic) ==
    [objects |-> objs, msgs |-> msgs, panic |-> panic, normalised |-> <<>>]

\* mut_two(attacker, target, objects) followed by attacker.attack(target)
attack_at(attacker, target, objs) ==
    IF mut_two_panics(attacker, target) THEN Result(objs, <<>>, TRUE)
    ELSE LET pair == mut_two(attacker, target, objs)
             r == attack(pair[1], pair[2])
         IN  Result([objs EXCEPT ![target] = r.obj], r.msgs, FALSE)

\* a player_move_or_attack that never looks for a target
player_move_or_attack_walks_in(dx, dy, m, objs) ==
    LET x == objs[PLAYER].x + dx
        y == objs[PLAYER].y + dy
    IN  IF index_panics(x, y, m) THEN Result(objs, <<>>, TRUE)
        ELSE Result(move_by_unchecked(PLAYER, dx, dy, m, objs), <<>>, FALSE)

player_move_or_attack(dx, dy, m, objs) ==
    LET x == objs[PLAYER].x + dx
        y == objs[PLAYER].y + dy
        target_id == FirstFighterAt(objs, x, y)
    IN  IF IsSome(target_id)
        THEN attack_at(PLAYER, Unwrap(target_id), objs)
        ELSE IF index_panics(x, y, m) THEN Result(objs, <<>>, TRUE)
        ELSE Result(move_by(PLAYER, dx, dy, m, objs), <<>>, FALSE)

\* a removal that fills the hole with the first element and puts the last
\* element first
swap_remove_through_front(v, i) ==
    LET front == SubSeq(v, 1, Len(v) - 1)
    IN  IF i = Len(v) THEN front
        ELSE [front EXCEPT ![i] = v[1], ![1] = v[Len(v)]]

\* Vec::swap_remove: the last element takes the removed one's place
swap_remove(v, i) ==
    LET front == SubSeq(v, 1, Len(v) - 1)
    IN  IF i = Len(v) THEN front ELSE [front EXCEPT ![i] = v[Len(v)]]

\* Vec::remove: the later elements shift down
\* Vec::pop in the place of Vec::remove: the last element goes
remove_the_last(v, i) == SubSeq(v, 1, Len(v) - 1)

remove(v, i) == SubSeq(v, 1, i - 1) \o SubSeq(v, i + 1, Len(v))

\* a pick_item_up without the capacity test
pick_item_up_unbounded(object_id, objs, inv) ==
    [objects |-> swap_remove(objs, object_id),
     inventory |-> Append(inv, objs[object_id]),
     msgs |-> <<Msg("You picked up a {}!", objs[object_id].name, "", 0)>>]

\* a pick-up that refuses only above the capacity
pick_item_up_one_more(object_id, objs, inv) ==
    IF Len(inv) > InventoryCap
    THEN [objects |-> objs, inventory |-> inv,
          msgs |-> <<Msg("Your inventory is full, cannot pick up {}.",
                         objs[object_id].name, "", 0)>>]
    ELSE [objects |-> swap_remove(objs, object_id),
          inventory |-> Append(inv, objs[object_id]),
          msgs |-> <<Msg("You picked up a {}!", objs[object_id].name, "", 0)>>]

\* a pick-up that shortens the registry by its last entity
pick_item_up_drops_last(object_id, objs, inv) ==
    IF Len(inv) >= InventoryCap
    THEN [objects |-> objs, inventory |-> inv,
          msgs |-> <<Msg("Your inventory is full, cannot pick up {}.",
                         objs[object_id].name, "", 0)>>]
    ELSE [objects |-> SubSeq(objs, 1, Len(objs) - 1),
          inventory |-> Append(inv, objs[object_id]),
          msgs |-> <<Msg("You picked up a {}!", objs[object_id].name, "", 0)>>]

pick_item_up(object_id, objs, inv) ==
    IF Len(inv) >= InventoryCap
    THEN [objects |-> objs, inventory |-> inv,
          msgs |-> <<Msg("Your inventory is full, cannot pick up {}.",
                         objs[object_id].name, "", 0)>>]
    ELSE [objects |-> swap_remove(objs, object_id),
          inventory |-> Append(inv, objs[object_id]),
          msgs |-> <<Msg("You picked up a {}!", objs[object_id].name, "", 0)>>]

\* the 'g' branch of handle_keys
pick_up_here(objs, inv) ==
    LET item_id == FirstItemAt(objs, objs[PLAYER].x, objs[PLAYER].y)
    IN  IF IsSome(item_id) THEN pick_item_up(Unwrap(item_id), objs, inv)
        ELSE [objects |-> objs, inventory |-> inv, msgs |-> <<>>]

----------------------------------------------------------------------------
(* Items *)

\* cast_heal: the registry afterwards and the UseResult
cast_heal(inventory_id, objs) ==
    IF IsSome(objs[PLAYER].fighter)
    THEN LET fighter == Unwrap(objs[PLAYER].fighter)
         IN  IF fighter.hp = fighter.max_hp
             THEN [objects |-> objs, result |-> "Cancelled",
                   msgs |-> <<Msg("You are already at full health", "", "", 0)>>]
             ELSE [objects |-> [objs EXCEPT ![PLAYER] = heal(@, HEAL_AMOUNT)],
                   result |-> "UsedUp",
                   msgs |-> <<Msg("Your wounds start to feel better!", "", "", 0)>>]
    ELSE [objects |-> objs, result |-> "Cancelled", msgs |-> <<>>]

use_item(inventory_id, inv, objs) ==
    IF IsSome(inv[inventory_id].item)
    THEN LET r == cast_heal(inventory_id, objs)    \* Heal => cast_heal
         IN  IF r.result = "UsedUp"
             THEN [objects |-> r.objects, inventory |-> remove(inv, inventory_id),
                   msgs |-> r.msgs]
             ELSE [objects |-> r.objects, inventory |-> inv,
                   msgs |-> r.msgs \o <<Msg("Cancelled", "", "", 0)>>]
    ELSE [objects |-> objs, inventory |-> inv,
          msgs |-> <<Msg("The {} cannot be used.", inv[inventory_id].name, "", 0)>>]

\* menu(): the assertion on the number of options
menu_panics(n_options) == n_options > InventoryCap

\* inventory_menu: `letter` is the key pressed in the menu, 0 for a key that
\* is no letter and k for the k-th letter of the alphabet; the Option is the
\* (1-based) slot chosen
inventory_menu(inv, letter) ==
    LET n_options == IF Len(inv) = 0 THEN 1 ELSE Len(inv)
        index == IF letter >= 1 /\ letter <= n_options THEN Some(letter) ELSE None
    IN  IF Len(inv) > 0 THEN index ELSE None

----------------------------------------------------------------------------
(* Field of view.  tcod's compute_fov is a library outside the repository: *)
(* a tile is in the field of view when it lies within the radius and every *)
(* tile strictly between it and the observer on the straight line lets     *)
(* light through; walls that end a line are lit (FOV_LIGHT_WALLS).         *)

\* the k-th of n tiles on the line from (x0, y0) to (x1, y1), rounded
LinePoint(x0, y0, x1, y1, k, n) ==
    <<x0 + Sign(x1 - x0) * ((2 * k * Abs(x1 - x0) + n) \div (2 * n)),
      y0 + Sign(y1 - y0) * ((2 * k * Abs(y1 - y0) + n) \div (2 * n))>>

LineOfSight(m, x0, y0, x1, y1) ==
    LET n == Max(Abs(x1 - x0), Abs(y1 - y0))
    IN  \A k \in 1 .. n - 1 :
            LET p == LinePoint(x0, y0, x1, y1, k, n)
            IN  ~m[p].block_sight

compute_fov(m, px, py, radius) ==
    {t \in DOMAIN m :
        /\ (t[1] - px) * (t[1] - px) + (t[2] - py) * (t[2] - py) <= radius * radius
        /\ LineOfSight(m, px, py, t[1], t[2])}

----------------------------------------------------------------------------
(* Monsters *)

\* (d as f32 / distance).round() as i32, for distance = sqrt(d2) > 0:
\* |d| / distance >= 0.5 exactly when 4 d^2 >= d2.  For distance = 0 both
\* components are 0 and 0.0 / 0.0 is NaN, which `as i32` turns into 0.
RoundedUnit(d, d2) == IF 4 * d * d >= d2 THEN Sign(d) ELSE 0

\* the square of the distance move_towards normalises the vector by
move_towards_distance2(id, target_x, target_y, objs) ==
    LET dx == target_x - objs[id].x
        dy == target_y - objs[id].y
    IN  dx * dx + dy * dy

\* a move_towards that never steps diagonally
move_towards_axis_first(id, target_x, target_y, m, objs) ==
    LET dx == target_x - objs[id].x
        dy == target_y - objs[id].y
    IN  IF dx /= 0 THEN move_by(id, Sign(dx), 0, m, objs)
        ELSE move_by(id, 0, Sign(dy), m, objs)

move_towards(id, target_x, target_y, m, objs) ==
    LET dx == target_x - objs[id].x
        dy == target_y - objs[id].y
        d2 == dx * dx + dy * dy
    IN  move_by(id, RoundedUnit(dx, d2), RoundedUnit(dy, d2), m, objs)

\* the approach branch of ai_take_turn: move_towards the player's position;
\* the result records the squared distance the call normalised by
approach(monster_id, m, objs) ==
    [Result(move_towards(monster_id, objs[PLAYER].x, objs[PLAYER].y, m, objs),
            <<>>, FALSE)
     EXCEPT !.normalised =
         <<move_towards_distance2(monster_id, objs[PLAYER].x, objs[PLAYER].y,
                                  objs)>>]

\* a monster in view that approaches from any distance, and never strikes
ai_take_turn_from_any_distance(monster_id, m, objs, fov_map) ==
    IF Pos(objs[monster_id]) \in fov_map
    THEN approach(monster_id, m, objs)
    ELSE Result(objs, <<>>, FALSE)

\* a monster that strikes the player whatever the player's hp
ai_take_turn_strikes_the_dead(monster_id, m, objs, fov_map) ==
    IF Pos(objs[monster_id]) \in fov_map
    THEN IF distance_at_least_2(objs[monster_id], objs[PLAYER])
         THEN approach(monster_id, m, objs)
         ELSE attack_at(monster_id, PLAYER, objs)
    ELSE Result(objs, <<>>, FALSE)

\* a monster that acts whether or not it is in view
ai_take_turn_always_awake(monster_id, m, objs, fov_map) ==
    IF distance_at_least_2(objs[monster_id], objs[PLAYER])
    THEN approach(monster_id, m, objs)
    ELSE IF IsSome(objs[PLAYER].fighter) /\ Unwrap(objs[PLAYER].fighter).hp > 0
    THEN attack_at(monster_id, PLAYER, objs)
    ELSE Result(objs, <<>>, FALSE)

ai_take_turn(monster_id, m, objs, fov_map) ==
    IF Pos(objs[monster_id]) \in fov_map
    THEN IF distance_at_least_2(objs[monster_id], objs[PLAYER])
         THEN approach(monster_id, m, objs)
         ELSE IF IsSome(objs[PLAYER].fighter) /\ Unwrap(objs[PLAYER].fighter).hp > 0
         THEN attack_at(monster_id, PLAYER, objs)
         ELSE Result(objs, <<>>, FALSE)
    ELSE Result(objs, <<>>, FALSE)

----------------------------------------------------------------------------
(* handle_keys.  Keys: the four arrows, 'g', 'i', Escape, Alt+Enter, and   *)
(* "NoKey" for Key::default() and every key without a branch.              *)
Keys == {"Up", "Down", "Left", "Right", "g", "i", "Escape", "AltEnter", "NoKey"}
MoveKeys == {"Up", "Down", "Left", "Right"}

\* arrow keys that leave the column as it is
KeyDx_stands_still(k) == 0

KeyDx(k) == IF k = "Left" THEN -1 ELSE IF k = "Right" THEN 1 ELSE 0
KeyDy(k) == IF k = "Up" THEN -1 ELSE IF k = "Down" THEN 1 ELSE 0

KeysResult(objs, inv, msgs, action, panic) ==
    [objects |-> objs, inventory |-> inv, msgs |-> msgs,
     action |-> action, panic |-> panic]

\* a handle_keys whose movement arms do not test player_alive
handle_keys_dead_may_move(k, m, objs, inv, letter) ==
    IF k \in MoveKeys
    THEN LET r == player_move_or_attack(KeyDx(k), KeyDy(k), m, objs)
         IN  KeysResult(r.objects, inv, r.msgs, "TookTurn", r.panic)
    ELSE KeysResult(objs, inv, <<>>,
                    IF k = "Escape" THEN "Exit" ELSE "DidntTakeTurn", FALSE)

\* a handle_keys whose pick-up arm returns TookTurn
handle_keys_pickup_takes_turn(k, m, objs, inv, letter) ==
    IF k = "Escape" THEN KeysResult(objs, inv, <<>>, "Exit", FALSE)
    ELSE IF k \in MoveKeys /\ objs[PLAYER].alive
    THEN LET r == player_move_or_attack(KeyDx(k), KeyDy(k), m, objs)
         IN  KeysResult(r.objects, inv, r.msgs, "TookTurn", r.panic)
    ELSE IF k = "g" /\ objs[PLAYER].alive
    THEN LET r == pick_up_here(objs, inv)
         IN  KeysResult(r.objects, r.inventory, r.msgs, "TookTurn", FALSE)
    ELSE KeysResult(objs, inv, <<>>, "DidntTakeTurn", FALSE)

\* the inventory menu is shown, and reads a key of its own, only in the
\* 'i' branch of a living player
menu_shown(k, objs) == k = "i" /\ objs[PLAYER].alive

handle_keys(k, m, objs, inv, letter) ==
    LET player_alive == objs[PLAYER].alive
    IN  IF k = "AltEnter" THEN KeysResult(objs, inv, <<>>, "DidntTakeTurn", FALSE)
        ELSE IF k = "Escape" THEN KeysResult(objs, inv, <<>>, "Exit", FALSE)
        ELSE IF k \in MoveKeys /\ player_alive
        THEN LET r == player_move_or_attack(KeyDx(k), KeyDy(k), m, objs)
             IN  KeysResult(r.objects, inv, r.msgs, "TookTurn", r.panic)
        ELSE IF k = "g" /\ player_alive
        THEN LET r == pick_up_here(objs, inv)
             IN  KeysResult(r.objects, r.inventory, r.msgs, "DidntTakeTurn", FALSE)
        ELSE IF k = "i" /\ player_alive
        THEN IF menu_panics(IF Len(inv) = 0 THEN 1 ELSE Len(inv))
             THEN KeysResult(objs, inv, <<>>, "DidntTakeTurn", TRUE)
             ELSE LET inventory_index == inventory_menu(inv, letter)
                  IN  IF IsSome(inventory_index)
                      THEN LET r == use_item(Unwrap(inventory_index), inv, objs)
                           IN  KeysResult(r.objects, r.inventory, r.msgs,
                                          "DidntTakeTurn", FALSE)
                      ELSE KeysResult(objs, inv, <<>>, "DidntTakeTurn", FALSE)
        ELSE KeysResult(objs, inv, <<>>, "DidntTakeTurn", FALSE)

----------------------------------------------------------------------------
(* The entities main() and place_objects create *)

PlayerFighter ==
    [max_hp |-> 30, hp |-> 30, defense |-> 2, power |-> 5, on_death |-> "Player"]
OrcFighter ==
    [max_hp |-> 10, hp |-> 10, defense |-> 0, power |-> 3, on_death |-> "Monster"]
TrollFighter ==
    [max_hp |-> 16, hp |-> 16, defense |-> 1, power |-> 4, on_death |-> "Monster"]

NewPlayer ==
    [ObjectNew(0, 0, "@", "player", "WHITE", TRUE)
        EXCEPT !.alive = TRUE, !.fighter = Some(PlayerFighter)]

NewOrc(x, y) ==
    [ObjectNew(x, y, "o", "orc", "DESATURATED_GREEN", TRUE)
        EXCEPT !.fighter = Some(OrcFighter), !.ai = Some("Ai"), !.alive = TRUE]

NewTroll(x, y) ==
    [ObjectNew(x, y, "T", "troll", "DARKER_GREEN", TRUE)
        EXCEPT !.fighter = Some(TrollFighter), !.ai = Some("Ai"), !.alive = TRUE]

NewPotion(x, y) ==
    [ObjectNew(x, y, "!", "healing potion", "VIOLET", FALSE)
        EXCEPT !.item = Some("Heal")]

\* The map make_map carves when it accepts a one-tile room at the origin
\* and then a one-tile room that does not intersect it, and joins their
\* centres by a horizontal tunnel followed by a vertical one:
\*      x: 012345
\*   y=0   ######
\*   y=1   #....#
\*   y=2   ####.#
\*   y=3   ####.#
\*   y=4   ######
\*   y=5   ######
FirstRoom == RectNew(0, 0, 2, 2)
SecondRoom == RectNew(3, 2, 2, 2)
StartMap ==
    LET carved == create_room(SecondRoom, create_room(FirstRoom, AllWalls))
        prev == Center(FirstRoom)
        new == Center(SecondRoom)
    IN  create_v_tunnel(prev[2], new[2], new[1],
                        create_h_tunnel(prev[1], new[1], prev[2], carved))

\* The constants make_map and place_objects are built with: MAP_WIDTH,
\* MAP_HEIGHT, ROOM_MIN_SIZE, ROOM_MAX_SIZE, MAX_ROOM_MONSTERS and
\* MAX_ROOM_ITEMS.
Build(width, height, min_size, max_size, monsters, items) ==
    [map_width |-> width, map_height |-> height, room_min_size |-> min_size,
     room_max_size |-> max_size, max_room_monsters |-> monsters,
     max_room_items |-> items]
SourceBuild ==
    Build(MapWidth, MapHeight, ROOM_MIN_SIZE, ROOM_MAX_SIZE, MAX_ROOM_MONSTERS,
          MAX_ROOM_ITEMS)
MainBuild ==
    Build(MainWidth, MainHeight, MainRoomSize, MainRoomSize, MainRoomMonsters,
          MainRoomItems)

\* Where make_map stands: the phase of the loop body ("room": about to
\* sample a candidate; "place", "monsters" and "items": inside
\* place_objects; "returned": make_map has returned), the number of
\* iterations done, the number of iterations to do, the room being filled,
\* the number place_objects drew for its current loop and the placements
\* that loop has still to make.
\* The harnesses run in the build of the source-named bounds.
GenState(phase, done, max_rooms, room, drawn, left) ==
    [phase |-> phase, done |-> done, max_rooms |-> max_rooms, room |-> room,
     drawn |-> drawn, left |-> left, build |-> SourceBuild]
GenReturned == GenState("returned", MAX_ROOMS, MAX_ROOMS, SecondRoom, 0, 0)

\* what a key press in the inventory menu may stand for: 0 for a key that
\* is no letter, k for the k-th letter of the alphabet
MenuLetters == 0 .. 26

\* what the call harness records of the call it made: the operation, its
\* arguments, what it returned and, for ai_take_turn, the registry it found
\* and the squared distances its calls of move_towards normalised by
Call(op, i, j, dx, dy, k, letter) ==
    [op |-> op, i |-> i, j |-> j, dx |-> dx, dy |-> dy, key |-> k,
     letter |-> letter, result |-> <<>>, before |-> <<>>, normalised |-> <<>>]
NoCall == Call("none", 0, 0, 0, 0, "NoKey", 0)

----------------------------------------------------------------------------
(* Generation: make_map, one step per sampled value.  A step of the loop   *)
(* samples a candidate room and tests it; an accepted room is carved and   *)
(* place_objects samples its monsters and then its items one by one; then  *)
(* the room is joined to the previous one and appended to `rooms`.         *)

\* the tiles place_objects samples from:
\* gen_range(room.x1 + 1, room.x2) x gen_range(room.y1 + 1, room.y2)
Interior(room) ==
    ((room.x1 + 1) .. (room.x2 - 1)) \X ((room.y1 + 1) .. (room.y2 - 1))

\* a body of the monsters' loop that does not ask is_blocked
place_monster_anywhere(x, y, orc, m, objs) ==
    Append(objs, IF orc THEN NewOrc(x, y) ELSE NewTroll(x, y))

\* the body of the monsters' loop of place_objects
place_monster(x, y, orc, m, objs) ==
    IF ~is_blocked(x, y, m, objs)
    THEN Append(objs, IF orc THEN NewOrc(x, y) ELSE NewTroll(x, y))
    ELSE objs

\* the body of the items' loop of place_objects
place_item(x, y, m, objs) ==
    IF ~is_blocked(x, y, m, objs) THEN Append(objs, NewPotion(x, y)) ELSE objs

\* two tunnels that both start at the centre of the previous room
connect_rooms_apart(prev, new, coin, m) ==
    IF coin
    THEN create_v_tunnel(prev[2], new[2], prev[1],
                         create_h_tunnel(prev[1], new[1], prev[2], m))
    ELSE create_h_tunnel(prev[1], new[1], prev[2],
                         create_v_tunnel(prev[2], new[2], prev[1], m))

\* the two tunnels between the centres of the previous and the new room
connect_rooms(prev, new, coin, m) ==
    IF coin
    THEN create_v_tunnel(prev[2], new[2], new[1],
                         create_h_tunnel(prev[1], new[1], prev[2], m))
    ELSE create_h_tunnel(prev[1], new[1], new[2],
                         create_v_tunnel(prev[2], new[2], prev[1], m))

\* main() creates the player at (0, 0) and calls make_map; the number of
\* iterations of its loop is drawn up to MAX_ROOMS, so that the loop that
\* never runs is one of the cases
InitGen ==
    /\ objects = <<NewPlayer>>
    /\ inventory = <<>>
    /\ map = AllWalls
    /\ fov = {}
    /\ previous_player_position = <<-1, -1>>
    /\ key = "NoKey"
    /\ player_action = "None"
    /\ pc = "make_map"
    /\ ai_id = 1
    /\ messages = <<>>
    /\ call = NoCall
    /\ rooms = <<>>
    /\ \E n \in 0 .. MAX_ROOMS :
          gen = GenState("room", 0, n, RectNew(0, 0, 0, 0), 0, 0)

GenFrame == <<inventory, fov, previous_player_position, key, player_action,
              pc, ai_id, messages, call>>

\* a candidate room is sampled and tested against the rooms accepted so
\* far; an accepted one is carved and handed to place_objects
NewRoom(w, h, x, y) ==
    /\ pc = "make_map" /\ gen.phase = "room" /\ gen.done < gen.max_rooms
    /\ LET new_room == RectNew(x, y, w, h)
           failed == \E k \in 1 .. Len(rooms) : intersects_with(new_room, rooms[k])
       IN  IF failed
           THEN /\ gen' = [gen EXCEPT !.done = @ + 1]
                /\ UNCHANGED map
           ELSE /\ map' = create_room(new_room, map)
                /\ gen' = [gen EXCEPT !.phase = "place", !.room = new_room]
    /\ UNCHANGED <<objects, rooms>>
    /\ UNCHANGED GenFrame

\* place_objects starts: num_monsters is drawn
DrawMonsters(num_monsters) ==
    /\ pc = "make_map" /\ gen.phase = "place"
    /\ gen' = [gen EXCEPT !.phase = "monsters", !.drawn = num_monsters,
                          !.left = num_monsters]
    /\ UNCHANGED <<objects, map, rooms>>
    /\ UNCHANGED GenFrame

\* one iteration of `for _ in 0..num_monsters`
PlaceMonster(x, y, orc) ==
    /\ pc = "make_map" /\ gen.phase = "monsters" /\ gen.left > 0
    /\ objects' = place_monster(x, y, orc, map, objects)
    /\ gen' = [gen EXCEPT !.left = @ - 1]
    /\ UNCHANGED <<map, rooms>>
    /\ UNCHANGED GenFrame

\* the monsters' loop is over: num_items is drawn
DrawItems(num_items) ==
    /\ pc = "make_map" /\ gen.phase = "monsters" /\ gen.left = 0
    /\ gen' = [gen EXCEPT !.phase = "items", !.drawn = num_items,
                          !.left = num_items]
    /\ UNCHANGED <<objects, map, rooms>>
    /\ UNCHANGED GenFrame

\* one iteration of `for _ in 0..num_items`
PlaceItem(x, y) ==
    /\ pc = "make_map" /\ gen.phase = "items" /\ gen.left > 0
    /\ objects' = place_item(x, y, map, objects)
    /\ gen' = [gen EXCEPT !.left = @ - 1]
    /\ UNCHANGED <<map, rooms>>
    /\ UNCHANGED GenFrame

\* place_objects has returned: the player is put on the centre of the first
\* room, a later room is joined to the previous one; the room is appended
ConnectRoom(coin) ==
    /\ pc = "make_map" /\ gen.phase = "items" /\ gen.left = 0
    /\ LET new == Center(gen.room)
       IN  IF rooms = <<>>
           THEN /\ objects' = [objects EXCEPT ![PLAYER] = set_pos(@, new[1], new[2])]
                /\ UNCHANGED map
           ELSE /\ map' = connect_rooms(Center(rooms[Len(rooms)]), new, coin, map)
                /\ UNCHANGED objects
    /\ rooms' = Append(rooms, gen.room)
    /\ gen' = [gen EXCEPT !.phase = "room", !.done = @ + 1, !.drawn = 0]
    /\ UNCHANGED GenFrame

\* the loop is over: make_map returns the map
ReturnMap ==
    /\ pc = "make_map" /\ gen.phase = "room" /\ gen.done = gen.max_rooms
    /\ gen' = [gen EXCEPT !.phase = "returned"]
    /\ pc' = "generated"
    /\ UNCHANGED <<objects, map, rooms, inventory, fov, previous_player_position,
                   key, player_action, ai_id, messages, call>>

\* gen_range(ROOM_MIN_SIZE, ROOM_MAX_SIZE + 1)
RoomSizes(build) == build.room_min_size .. build.room_max_size

\* the values the steps of make_map draw, in the build it runs in
NextGen ==
    \/ \E w, h \in RoomSizes(gen.build) :
         \E x \in 0 .. (gen.build.map_width - w - 1),
            y \in 0 .. (gen.build.map_height - h - 1) :
           NewRoom(w, h, x, y)
    \/ \E num_monsters \in 0 .. gen.build.max_room_monsters :
         DrawMonsters(num_monsters)
    \/ \E t \in Interior(gen.room), orc \in BOOLEAN : PlaceMonster(t[1], t[2], orc)
    \/ \E num_items \in 0 .. gen.build.max_room_items : DrawItems(num_items)
    \/ \E t \in Interior(gen.room) : PlaceItem(t[1], t[2])
    \/ \E coin \in BOOLEAN : ConnectRoom(coin)
    \/ ReturnMap

SpecGen == InitGen /\ [][NextGen]_vars

----------------------------------------------------------------------------
(* The main loop *)

TextWelcome == "Welcome stranger! Prepare to slay the dragon"

\* the player and the map of walls of the whole program's build
MainPlayer ==
    [NewPlayer EXCEPT !.fighter =
        Some([PlayerFighter EXCEPT !.max_hp = MainMaxHp, !.hp = MainMaxHp])]
MainTiles == (0 .. MainWidth - 1) \X (0 .. MainHeight - 1)
MainWalls == [t \in MainTiles |-> TileWall]

\* main() up to its call of make_map: the player alone in the registry;
\* make_map starts on a map of walls with no room accepted and all its
\* iterations to do
Init ==
    /\ objects = <<MainPlayer>>
    /\ inventory = <<>>
    /\ map = MainWalls
    /\ fov = {}
    /\ previous_player_position = <<-1, -1>>
    /\ key = "NoKey"
    /\ player_action = "None"
    /\ pc = "make_map"
    /\ ai_id = 1
    /\ messages = <<>>
    /\ call = NoCall
    /\ rooms = <<>>
    /\ gen = [GenState("room", 0, MainMaxRooms, RectNew(0, 0, 0, 0), 0, 0)
               EXCEPT !.build = MainBuild]

\* main() between make_map and its loop: the inventory is created empty,
\* the previous position is one no tile has, and the welcome is pushed on
\* the log
StartLoop ==
    /\ pc = "generated"
    /\ inventory' = <<>>
    /\ previous_player_position' = <<-1, -1>>
    /\ key' = "NoKey"
    /\ messages' = <<Msg(TextWelcome, "", "", 0)>>
    /\ pc' = "frame"
    /\ UNCHANGED <<objects, map, fov, player_action, ai_id, call, rooms, gen>>

\* a tile loop that shows only what is visible now
explore_visible_only(m, visible) ==
    [t \in DOMAIN m |-> [m[t] EXCEPT !.explored = (t \in visible)]]

\* the tile loop of render_all: what is visible becomes explored
explore_visible(m, visible) ==
    [t \in DOMAIN m |->
        IF t \in visible THEN [m[t] EXCEPT !.explored = TRUE] ELSE m[t]]

\* a recompute only when the player has changed column
fov_recompute_on_column_change(previous, position) ==
    previous[1] /= position[1]

\* let fov_recompute = previous_player_position != (objects[PLAYER].pos())
fov_recompute(previous, position) == previous /= position

\* One pass of the loop body up to handle_keys: the event is read, the
\* screen rendered (render_all recomputes the field of view when the player
\* has moved and marks what is visible as explored), the position remembered.
Frame(event) ==
    /\ pc = "frame"
    /\ key' = IF event = "Mouse" THEN key ELSE event
    /\ LET player == objects[PLAYER]
           seen == IF fov_recompute(previous_player_position, Pos(player))
                   THEN compute_fov(map, player.x, player.y, TORCH_RADIUS)
                   ELSE fov
       IN  /\ fov' = seen
           /\ map' = explore_visible(map, seen)
           /\ previous_player_position' = Pos(player)
    /\ pc' = "keys"
    /\ messages' = <<>>
    /\ UNCHANGED <<objects, inventory, player_action, ai_id, call, rooms, gen>>

\* while !tcod.root.window_closed()
WindowClosed ==
    /\ pc = "frame"
    /\ pc' = "done"
    /\ messages' = <<>>
    /\ UNCHANGED <<objects, inventory, map, fov, previous_player_position,
                   key, player_action, ai_id, call, rooms, gen>>

\* a pass that runs after every action of a living player
monsters_take_turn_unless_exit(player_alive, action) == player_alive

\* objects[PLAYER].alive && player_action != PlayerAction::DidntTakeTurn
monsters_take_turn(player_alive, action) ==
    player_alive /\ action /= "DidntTakeTurn"

\* handle_keys, the Exit test and the test that opens the monsters' pass
HandleKeys(letter) ==
    /\ pc = "keys"
    /\ letter = 0 \/ menu_shown(key, objects)
    /\ LET r == handle_keys(key, map, objects, inventory, letter)
       IN  IF r.panic
           THEN /\ pc' = "panic"
                /\ messages' = <<>>
                /\ UNCHANGED <<objects, inventory, player_action, ai_id>>
           ELSE /\ objects' = r.objects
                /\ inventory' = r.inventory
                /\ messages' = r.msgs
                /\ player_action' = r.action
                /\ ai_id' = 1
                /\ pc' = IF r.action = "Exit" THEN "done"
                         ELSE IF monsters_take_turn(r.objects[PLAYER].alive, r.action)
                         THEN "ai"
                         ELSE "frame"
    /\ UNCHANGED <<map, fov, previous_player_position, key, call, rooms, gen>>

\* a range that yields every other index
range_next_skipping(id) == id + 2

\* the index the range 0..objects.len() yields after id
range_next(id) == id + 1

\* one iteration of `for id in 0..objects.len()`
AiStep ==
    /\ pc = "ai"
    /\ LET r == IF IsSome(objects[ai_id].ai)
                THEN ai_take_turn(ai_id, map, objects, fov)
                ELSE Result(objects, <<>>, FALSE)
       IN  IF r.panic
           THEN /\ pc' = "panic"
                /\ messages' = <<>>
                /\ UNCHANGED <<objects, ai_id>>
           ELSE /\ objects' = r.objects
                /\ messages' = r.msgs
                /\ ai_id' = IF range_next(ai_id) > Len(objects) THEN 1
                            ELSE range_next(ai_id)
                /\ pc' = IF range_next(ai_id) > Len(objects) THEN "frame"
                         ELSE "ai"
    /\ UNCHANGED <<inventory, map, fov, previous_player_position, key,
                   player_action, call, rooms, gen>>

Events == Keys \cup {"Mouse"}

\* make_map, the rest of the set-up, and the loop
Next ==
    \/ NextGen
    \/ StartLoop
    \/ \E event \in Events : Frame(event)
    \/ WindowClosed
    \/ \E letter \in MenuLetters : HandleKeys(letter)
    \/ AiStep

Spec == Init /\ [][Next]_vars

----------------------------------------------------------------------------
(* The call harness: one call of an operation of the registry on inputs    *)
(* drawn from bounded sets, wider than the stats place_objects hands out,  *)
(* so that every branch of attack, take_damage, move_by and pick_item_up   *)
(* is taken.                                                               *)

\* hit points the harness gives a fighter, up to HarnessMaxHp
HarnessMaxHp == 3

HarnessFighters ==
    {[max_hp |-> 10, hp |-> hp, defense |-> d, power |-> 3, on_death |-> "Monster"] :
        hp \in (2 .. HarnessMaxHp) \cup {10}, d \in {0, 2}}
    \cup {[max_hp |-> 10, hp |-> 10, defense |-> 5, power |-> 1, on_death |-> "Monster"]}

\* what may stand on a tile next to the player: a monster, a potion, the
\* remains of a monster, or a blocking object that cannot fight
HarnessNeighbours(x, y) ==
    {[NewOrc(x, y) EXCEPT !.fighter = Some(f)] : f \in HarnessFighters}
    \cup {NewPotion(x, y), monster_death(NewOrc(x, y)).obj,
          ObjectNew(x, y, "#", "pillar", "GREY", TRUE)}

HarnessPlayers ==
    {set_pos(NewPlayer, 4, 2),
     [set_pos(NewPlayer, 4, 2) EXCEPT !.fighter = Some([PlayerFighter EXCEPT !.hp = 1])],
     [set_pos(NewPlayer, 4, 2) EXCEPT !.fighter = Some([PlayerFighter EXCEPT !.hp = 28])],
     [set_pos(NewPlayer, 4, 2) EXCEPT !.fighter = None]}

HarnessRegistries ==
    {<<p, a, b>> : p \in HarnessPlayers,
                   a \in HarnessNeighbours(4, 3) \cup {NewPotion(4, 2)},
                   b \in HarnessNeighbours(4, 3) \cup HarnessNeighbours(4, 1)}

\* n potions picked up earlier, along the tunnel
Potions(n) == [k \in 1 .. n |-> NewPotion(1 + (k % 4), 1)]

InitCalls ==
    /\ objects \in HarnessRegistries
    /\ inventory \in {Potions(0), Potions(InventoryCap - 1), Potions(InventoryCap)}
    /\ map = StartMap
    /\ fov = {}
    /\ previous_player_position = <<-1, -1>>
    /\ key = "NoKey"
    /\ player_action = "None"
    /\ pc = "call"
    /\ ai_id = 1
    /\ messages = <<>>
    /\ call = NoCall
    /\ rooms = <<FirstRoom, SecondRoom>>
    /\ gen = GenReturned

Returned(r, c) ==
    /\ pc' = IF r.panic THEN "panic" ELSE "returned"
    /\ objects' = r.objects
    /\ messages' = r.msgs
    /\ call' = c
    /\ UNCHANGED <<map, fov, previous_player_position, key, ai_id, rooms, gen>>

CallAttack(i, j) ==
    /\ pc = "call"
    /\ Returned(attack_at(i, j, objects), Call("attack", i, j, 0, 0, "NoKey", 0))
    /\ UNCHANGED <<inventory, player_action>>

CallMoveBy(id, dx, dy) ==
    /\ pc = "call"
    /\ Returned(Result(move_by(id, dx, dy, map, objects), <<>>,
                       index_panics(objects[id].x + dx, objects[id].y + dy, map)),
                Call("move_by", id, 0, dx, dy, "NoKey", 0))
    /\ UNCHANGED <<inventory, player_action>>

\* mut_two on the registry: the pair it returns, or the abort
CallMutTwo(i, j) ==
    /\ pc = "call"
    /\ pc' = IF mut_two_panics(i, j) THEN "panic" ELSE "returned"
    /\ call' = [Call("mut_two", i, j, 0, 0, "NoKey", 0) EXCEPT
                  !.result = IF mut_two_panics(i, j) THEN <<>>
                             ELSE mut_two(i, j, objects)]
    /\ UNCHANGED <<objects, inventory, map, fov, previous_player_position,
                   key, player_action, ai_id, messages, rooms, gen>>

CallHandleKeys(k, letter) ==
    /\ pc = "call"
    /\ letter = 0 \/ menu_shown(k, objects)
    /\ LET r == handle_keys(k, map, objects, inventory, letter)
       IN  /\ Returned(r, Call("handle_keys", 0, 0, KeyDx(k), KeyDy(k), k, letter))
           /\ inventory' = r.inventory
           /\ player_action' = r.action

NextCalls ==
    \/ \E i, j \in Indices(objects) : CallAttack(i, j)
    \/ \E i, j \in Indices(objects) : CallMutTwo(i, j)
    \/ \E id \in Indices(objects), dx, dy \in -1 .. 1 : CallMoveBy(id, dx, dy)
    \/ \E k \in Keys, letter \in MenuLetters : CallHandleKeys(k, letter)

SpecCalls == InitCalls /\ [][NextCalls]_vars

----------------------------------------------------------------------------
(* The monsters' harness: one call of ai_take_turn in a single open room,  *)
(* with the monster on any tile of it, a second entity on any other, and   *)
(* the field of view either computed from the player's tile or empty.      *)

OpenRoom == RectNew(0, 0, MapWidth - 1, MapHeight - 1)
OpenMap == create_room(OpenRoom, AllWalls)

AiPlayers ==
    {set_pos(NewPlayer, 2, 2),
     take_damage(set_pos(NewPlayer, 2, 2), 30).obj,
     set_pos(NewPlayer, 1, 1),
     set_pos(NewPlayer, 3, 3)}

AiRegistries ==
    {<<p, NewOrc(a[1], a[2]), b>> :
        p \in AiPlayers, a \in Interior(OpenRoom),
        b \in {NewTroll(t[1], t[2]) : t \in Interior(OpenRoom) \ {<<2, 2>>}}
              \cup {NewPotion(t[1], t[2]) : t \in Interior(OpenRoom)}}

InitAi ==
    /\ objects \in {r \in AiRegistries : ~(r[3].blocks /\ Pos(r[3]) = Pos(r[2]))}
    /\ inventory = <<>>
    /\ map = OpenMap
    /\ fov \in {compute_fov(OpenMap, 2, 2, TORCH_RADIUS), {}}
    /\ previous_player_position = <<2, 2>>
    /\ key = "NoKey"
    /\ player_action = "TookTurn"
    /\ pc = "call"
    /\ ai_id = 1
    /\ messages = <<>>
    /\ call = NoCall
    /\ rooms = <<OpenRoom>>
    /\ gen = GenState("returned", 1, 1, OpenRoom, 0, 0)

CallAiTakeTurn(id) ==
    /\ pc = "call"
    /\ IsSome(objects[id].ai)
    /\ Returned(ai_take_turn(id, map, objects, fov),
                [Call("ai_take_turn", id, 0, 0, 0, "NoKey", 0) EXCEPT
                    !.before = objects,
                    !.normalised =
                        ai_take_turn(id, map, objects, fov).normalised])
    /\ UNCHANGED <<inventory, player_action>>

NextAi == \E id \in Indices(objects) : CallAiTakeTurn(id)

SpecAi == InitAi /\ [][NextAi]_vars

----------------------------------------------------------------------------
(* Properties *)

HasMsg(msgs, text) == \E k \in 1 .. Len(msgs) : msgs[k].text = text

TextAttack == "{} attacks {} for {} hit points."
TextNoEffect == "{} attacks {} but it has no effect!"
TextIsDead == "{} is dead!"
TextYouDied == "You died!"
TextFull == "Your inventory is full, cannot pick up {}."

Hp(o) == Unwrap(o.fighter).hp

\* C1: every entity with a Fighter capability has 0 <= hp <= max_hp in every
\* reachable state.  take_damage subtracts without clamping, so the player
\* ends below zero.
C1_HpWithinBounds ==
    \A i \in Indices(objects) :
        IsSome(objects[i].fighter) =>
            /\ 0 <= Hp(objects[i])
            /\ Hp(objects[i]) <= Unwrap(objects[i].fighter).max_hp

\* the half of C1 the code keeps: hp never exceeds max_hp
HpAtMostMax ==
    \A i \in Indices(objects) :
        IsSome(objects[i].fighter) =>
            Hp(objects[i]) <= Unwrap(objects[i].fighter).max_hp

\* the attack a call of the harness made: attacker and target before it,
\* the target after it
AttackCalled == call'.op = "attack" /\ pc = "call" /\ pc' = "returned"
DamageOf(a, t) == Max(0, PowerOf(a) - DefenseOf(t))

\* C2: attack lowers the target's hp by exactly max(0, power - defense), a
\* missing Fighter counting as 0; when power - defense <= 0 the target is
\* unchanged and the "no effect" message is pushed.
C2_AttackDamage ==
    [][AttackCalled =>
        LET a == objects[call'.i]
            t == objects[call'.j]
            t2 == objects'[call'.j]
        IN  /\ \A k \in Indices(objects) : k /= call'.j => objects'[k] = objects[k]
            /\ IsSome(t.fighter) /\ IsSome(t2.fighter) =>
                   Hp(t2) = Hp(t) - DamageOf(a, t)
            /\ IsSome(t.fighter) /\ ~IsSome(t2.fighter) =>
                   Hp(t) - DamageOf(a, t) <= 0
            /\ ~IsSome(t.fighter) => t2 = t
            /\ PowerOf(a) - DefenseOf(t) <= 0 =>
                   /\ t2 = t
                   /\ messages' = <<Msg(TextNoEffect, a.name, t.name, 0)>>
            /\ PowerOf(a) - DefenseOf(t) > 0 =>
                   /\ messages'[1] = Msg(TextAttack, a.name, t.name,
                                         PowerOf(a) - DefenseOf(t))
                   /\ ~HasMsg(messages', TextNoEffect)
    ]_vars

\* an attack that had no effect on a target that can fight, and one of
\* power 5 on defense 2 that left the target 3 hit points lower
C2_Witness ==
    /\ pc = "returned" /\ call.op = "attack"
    /\ HasMsg(messages, TextNoEffect)
    /\ IsSome(objects[call.j].fighter)
    /\ PowerOf(objects[call.i]) > 0

C2_WitnessThree ==
    /\ pc = "returned" /\ call.op = "attack"
    /\ PowerOf(objects[call.i]) = 5
    /\ IsSome(objects[call.j].fighter)
    /\ DefenseOf(objects[call.j]) = 2
    /\ Hp(objects[call.j]) = 10 - 3

\* C3: an attack that brings a monster-variant target's hp to 0 or below
\* clears its alive flag, strips Fighter and AI, clears blocks and renames
\* it "remains of <old name>", all in that step.
C3_MonsterDeath ==
    [][AttackCalled =>
        LET a == objects[call'.i]
            t == objects[call'.j]
            t2 == objects'[call'.j]
        IN  (/\ IsSome(t.fighter)
             /\ Unwrap(t.fighter).on_death = "Monster"
             /\ DamageOf(a, t) > 0
             /\ Hp(t) - DamageOf(a, t) <= 0)
            => /\ t2.alive = FALSE
               /\ t2.fighter = None
               /\ t2.ai = None
               /\ t2.blocks = FALSE
               /\ t2.name = "remains of " \o t.name
               /\ t2.x = t.x /\ t2.y = t.y
    ]_vars

\* a monster with exactly 3 hit points and defense 2 was hit by the player
\* (power 5) and is now its remains
C3_Witness ==
    /\ pc = "returned" /\ call.op = "attack" /\ call.i = PLAYER
    /\ PowerOf(objects[PLAYER]) = 5
    /\ messages = <<Msg(TextAttack, "player", "orc", 3), Msg(TextIsDead, "orc", "", 0)>>
    /\ objects[call.j].name = "remains of orc"

\* the names place_objects and main() give, and those of remains
LivingNames == {"player", "orc", "troll"}
RemainsNames == {"remains of " \o n : n \in LivingNames}

\* C4: a death transition fires once per entity.  No attack is aimed at
\* remains, no "is dead" line names remains, no name carries the prefix
\* twice, remains keep no capability; the player's death fires only while
\* the player is alive, and a dead player never lives again.
C4_DeathFiresOnce ==
    [][/\ \A k \in 1 .. Len(messages') :
            /\ messages'[k].text \in {TextAttack, TextNoEffect} =>
                   messages'[k].whom \in LivingNames
            /\ messages'[k].text = TextIsDead =>
                   /\ messages'[k].who \in LivingNames
                   /\ Cardinality({i \in Indices(objects) :
                          /\ objects[i].alive
                          /\ ~objects'[i].alive
                          /\ objects'[i].name = "remains of " \o messages'[k].who})
                      = 1
            /\ messages'[k].text = TextYouDied =>
                   objects[PLAYER].alive /\ ~objects'[PLAYER].alive
       /\ Cardinality({k \in 1 .. Len(messages') :
                          messages'[k].text \in {TextIsDead, TextYouDied}}) <= 1
       /\ \A i \in Indices(objects') :
            /\ objects'[i].name \in
                   LivingNames \cup RemainsNames \cup {"healing potion"}
            /\ objects'[i].name \in RemainsNames =>
                   /\ objects'[i].fighter = None /\ objects'[i].ai = None
                   /\ ~objects'[i].alive
       /\ ~objects[PLAYER].alive => ~objects'[PLAYER].alive
       /\ Len(objects') = Len(objects) =>
            \A i \in Indices(objects) :
                objects[i].name \in RemainsNames => objects'[i] = objects[i]
    ]_vars

\* the player has walked onto the remains of the orc it killed: the move
\* that would have been an attack on the living orc was a plain move
C4_Witness ==
    /\ pc = "frame" /\ player_action = "TookTurn"
    /\ \E i \in Indices(objects) :
            /\ objects[i].name = "remains of orc"
            /\ Pos(objects[i]) = Pos(objects[PLAYER])

\* the player is dead and a further movement key is being handled
C4_WitnessPlayer ==
    /\ ~objects[PLAYER].alive
    /\ pc = "keys" /\ key \in MoveKeys

\* the entities that hold the AI capability
AiEntities(objs) == {objs[i] : i \in {j \in Indices(objs) : IsSome(objs[j].ai)}}
PlayerHp(objs) == Hp(objs[PLAYER])

\* C5: monsters act only in a tick classified TookTurn.  The monsters' pass
\* runs only after handle_keys returned TookTurn; a step of handle_keys that
\* returns DidntTakeTurn leaves every AI entity and the player's hp alone
\* and opens no pass; no step outside such a tick moves a monster or lowers
\* the player's hp: before the first tick make_map only adds monsters.
C5_AiOnlyOnTookTurn ==
    [][/\ pc = "ai" => player_action = "TookTurn"
       /\ pc' = "ai" => player_action' = "TookTurn"
       /\ pc = "keys" /\ pc' /= "panic" /\ player_action' = "DidntTakeTurn" =>
            /\ AiEntities(objects') = AiEntities(objects)
            /\ PlayerHp(objects') >= PlayerHp(objects)
            /\ pc' = "frame"
       /\ (AiEntities(objects') /= AiEntities(objects)
             \/ PlayerHp(objects') < PlayerHp(objects)) =>
            \/ pc = "ai" /\ player_action = "TookTurn"
            \/ pc = "keys" /\ player_action' = "TookTurn"
            \/ /\ pc = "make_map"
               /\ AiEntities(objects) \subseteq AiEntities(objects')
               /\ PlayerHp(objects') = PlayerHp(objects)
    ]_vars

\* a potion was used from the inventory, which was classified
\* DidntTakeTurn, while an orc stood next to the player, in sight: it did
\* not attack, the loop is back at its head
C5_Witness ==
    /\ pc = "frame" /\ key = "i" /\ player_action = "DidntTakeTurn"
    /\ messages = <<Msg("Your wounds start to feel better!", "", "", 0)>>
    /\ \E i \in Indices(objects) :
            /\ IsSome(objects[i].ai)
            /\ Pos(objects[i]) \in fov
            /\ ~distance_at_least_2(objects[i], objects[PLAYER])

\* C6: the classification of handle_keys.  A movement key while the player
\* is alive that moved the player or attacked yields TookTurn; Alt+Enter,
\* the inventory without a use, and a pick-up yield DidntTakeTurn; Escape
\* yields Exit, alive or not, and nothing happens after it.
C6_Classification ==
    [][/\ pc = "keys" /\ pc' /= "panic" =>
            /\ (/\ key \in MoveKeys /\ objects[PLAYER].alive
                /\ \/ Pos(objects'[PLAYER]) /= Pos(objects[PLAYER])
                   \/ HasMsg(messages', TextAttack)
                   \/ HasMsg(messages', TextNoEffect))
               => player_action' = "TookTurn"
            /\ key = "AltEnter" => player_action' = "DidntTakeTurn"
            /\ key = "i" /\ inventory' = inventory =>
                   player_action' = "DidntTakeTurn"
            /\ key = "g" => player_action' = "DidntTakeTurn"
            /\ key = "Escape" => player_action' = "Exit" /\ pc' = "done"
            /\ player_action' = "Exit" => key = "Escape"
       /\ pc /= "done"
    ]_vars

\* the session was quit while the player was dead
C6_Witness ==
    /\ pc = "done" /\ player_action = "Exit" /\ key = "Escape"
    /\ ~objects[PLAYER].alive

\* an object but for its position
Unplaced(o) == [o EXCEPT !.x = 0, !.y = 0]

\* C7 as stated: once the player's alive flag is false nothing in the
\* registry or the inventory changes again.
C7_FrozenOnceDead ==
    [][~objects[PLAYER].alive =>
            objects' = objects /\ inventory' = inventory]_vars

\* C7 as amended: once the player is dead, handle_keys ignores movement,
\* pick-up and inventory keys and opens no monsters' pass, and outside the
\* pass in which the player died nothing in the registry or the inventory
\* changes; in the rest of that pass the monsters later in the registry
\* still take their turn: they may move, and nothing else changes.
C7_FrozenAfterDeathTick ==
    [][~objects[PLAYER].alive =>
            /\ inventory' = inventory
            /\ Len(objects') = Len(objects)
            /\ \A i \in Indices(objects) :
                   Unplaced(objects'[i]) = Unplaced(objects[i])
            /\ objects'[PLAYER] = objects[PLAYER]
            /\ pc /= "ai" => objects' = objects
            /\ pc = "keys" => pc' \in {"frame", "done"}
            /\ pc = "keys" /\ key /= "Escape" => player_action' = "DidntTakeTurn"
            /\ ~HasMsg(messages', TextAttack) /\ ~HasMsg(messages', TextNoEffect)
    ]_vars

\* the player is dead, a movement key was handled and ignored
C7_Witness ==
    /\ ~objects[PLAYER].alive
    /\ pc = "frame" /\ key \in MoveKeys /\ player_action = "DidntTakeTurn"

\* a call of handle_keys with a movement key on a living player
PlayerMoveCalled ==
    /\ pc = "call" /\ call'.op = "handle_keys" /\ call'.key \in MoveKeys
    /\ objects[PLAYER].alive

\* the fighters that stand on a tile, by index
FightersAt(objs, x, y) ==
    {i \in Indices(objs) : IsSome(objs[i].fighter) /\ Pos(objs[i]) = <<x, y>>}

\* C8: a player move whose destination tile holds an entity with a Fighter
\* capability is an attack on the first such entity of the registry: that
\* entity alone takes the attack, the player stays where it was, and the
\* action is a turn.
C8_MoveOntoFighterAttacks ==
    [][PlayerMoveCalled =>
         LET x == objects[PLAYER].x + call'.dx
             y == objects[PLAYER].y + call'.dy
             there == FightersAt(objects, x, y)
         IN  there /= {} =>
               LET t == CHOOSE i \in there : \A j \in there : i <= j
                   hit == attack(objects[PLAYER], objects[t])
               IN  /\ pc' = "returned"
                   /\ Pos(objects'[PLAYER]) = Pos(objects[PLAYER])
                   /\ Pos(objects'[PLAYER]) /= <<x, y>>
                   /\ objects' = [objects EXCEPT ![t] = hit.obj]
                   /\ messages' = hit.msgs
                   /\ player_action' = "TookTurn"
    ]_vars

\* the player pressed Down with two monsters on the tile below: the first
\* of the registry lost 5 hit points, the second none, the player stayed
C8_Witness ==
    /\ pc = "returned" /\ call.op = "handle_keys" /\ call.key = "Down"
    /\ Pos(objects[PLAYER]) = <<4, 2>>
    /\ Pos(objects[2]) = <<4, 3>> /\ Pos(objects[3]) = <<4, 3>>
    /\ IsSome(objects[2].fighter) /\ IsSome(objects[3].fighter)
    /\ Hp(objects[2]) = 5 /\ Hp(objects[3]) = 10
    /\ HasMsg(messages, TextAttack)

\* a tile no mover may enter: a blocked tile or one a blocking entity holds
Obstructed(x, y) ==
    \/ map[<<x, y>>].blocked
    \/ \E i \in Indices(objects) : objects[i].blocks /\ Pos(objects[i]) = <<x, y>>

\* the registry after the mover stepped by (dx, dy), all else as it was
Relocated(id, dx, dy) ==
    [objects EXCEPT ![id].x = objects[id].x + dx, ![id].y = objects[id].y + dy]

\* C9: a move onto an unblocked tile relocates the mover by exactly the
\* step asked for; a move onto a blocked tile, or onto a tile held by a
\* blocking entity (for the player: one without a Fighter), changes
\* nothing in the registry.  move_by is the move of any entity, a movement
\* key the move of the player.
C9_MoveOrNoOp ==
    [][/\ (pc = "call" /\ call'.op = "move_by" /\ pc' = "returned") =>
            LET id == call'.i
                x == objects[id].x + call'.dx
                y == objects[id].y + call'.dy
            IN  /\ ~Obstructed(x, y) =>
                       objects' = Relocated(id, call'.dx, call'.dy)
                /\ Obstructed(x, y) => objects' = objects
                /\ messages' = <<>>
       /\ (PlayerMoveCalled /\ pc' = "returned") =>
            LET x == objects[PLAYER].x + call'.dx
                y == objects[PLAYER].y + call'.dy
            IN  FightersAt(objects, x, y) = {} =>
                  /\ ~Obstructed(x, y) =>
                         objects' = Relocated(PLAYER, call'.dx, call'.dy)
                  /\ Obstructed(x, y) => objects' = objects
                  /\ messages' = <<>>
    ]_vars

\* the player pressed Down with a pillar on the tile below and no fighter
\* there: nobody moved
C9_Witness ==
    /\ pc = "returned" /\ call.op = "handle_keys" /\ call.key = "Down"
    /\ Pos(objects[PLAYER]) = <<4, 2>>
    /\ objects[2].name = "pillar" /\ Pos(objects[2]) = <<4, 3>>
    /\ FightersAt(objects, 4, 3) = {}
    /\ objects[3] \in HarnessNeighbours(4, 3) \cup HarnessNeighbours(4, 1)

\* a monster stepped onto a free floor tile
C9_WitnessRelocated ==
    /\ pc = "returned" /\ call.op = "move_by" /\ call.i = 3
    /\ call.dx = -1 /\ call.dy = 0
    /\ IsSome(objects[3].ai) /\ Pos(objects[3]) = <<3, 1>>

\* C10: a pick-up with 26 entities in the inventory is rejected: inventory
\* and registry are unchanged, the item keeps its index, and the
\* "inventory is full" message names the item.
C10_PickUpRejectedWhenFull ==
    [][(/\ pc = "call" /\ call'.op = "handle_keys" /\ call'.key = "g"
        /\ objects[PLAYER].alive
        /\ Len(inventory) = InventoryCap
        /\ IsSome(FirstItemAt(objects, objects[PLAYER].x, objects[PLAYER].y)))
       => LET item_id == Unwrap(FirstItemAt(objects, objects[PLAYER].x,
                                            objects[PLAYER].y))
          IN  /\ pc' = "returned"
              /\ inventory' = inventory
              /\ Len(objects') = Len(objects)
              /\ objects'[item_id] = objects[item_id]
              /\ objects' = objects
              /\ messages' = <<Msg(TextFull, objects[item_id].name, "", 0)>>
    ]_vars

\* 'g' was pressed on a potion with 26 potions carried: it is still on the
\* floor under the player and the message was emitted
C10_Witness ==
    /\ pc = "returned" /\ call.op = "handle_keys" /\ call.key = "g"
    /\ Len(inventory) = InventoryCap
    /\ IsSome(objects[2].item) /\ Pos(objects[2]) = Pos(objects[PLAYER])
    /\ messages = <<Msg(TextFull, "healing potion", "", 0)>>

\* C11: mut_two(i, j, items) aborts when i = j, and for i /= j within
\* bounds returns the element at i first and the element at j second,
\* whichever index is the larger.
C11_MutTwo ==
    [][(pc = "call" /\ call'.op = "mut_two") =>
         /\ call'.i = call'.j <=> pc' = "panic"
         /\ call'.i /= call'.j =>
              /\ pc' = "returned"
              /\ call'.result = <<objects[call'.i], objects[call'.j]>>
         /\ objects' = objects
    ]_vars

\* mut_two was asked for a larger index first and two entities that differ,
\* and returned them in the order asked for
C11_Witness ==
    /\ pc = "returned" /\ call.op = "mut_two" /\ call.i > call.j
    /\ objects[call.i] /= objects[call.j]
    /\ call.result = <<objects[call.i], objects[call.j]>>

\* mut_two was asked for the same index twice and aborted
C11_WitnessAbort ==
    /\ pc = "panic" /\ call.op = "mut_two" /\ call.i = call.j

\* the tiles a rectangle covers, its walls included
RectTiles(r) == (r.x1 .. r.x2) \X (r.y1 .. r.y2)

\* C12: no two rooms make_map accepted overlap or touch: the rectangles,
\* walls included, share no tile.
C12_RoomsDisjoint ==
    \A i, j \in 1 .. Len(rooms) :
        i /= j => RectTiles(rooms[i]) \cap RectTiles(rooms[j]) = {}

\* make_map returned after it accepted two rooms and rejected a candidate
C12_Witness ==
    /\ gen.phase = "returned" /\ gen.done = 3 /\ Len(rooms) = 2

\* the tiles reached from `seen` over 4-adjacent tiles that are not blocked
RECURSIVE Flood(_, _)
Flood(m, seen) ==
    LET next == seen \cup
                {t \in Tiles : /\ ~m[t].blocked
                               /\ \E u \in seen :
                                     Abs(t[1] - u[1]) + Abs(t[2] - u[2]) = 1}
    IN  IF next = seen THEN seen ELSE Flood(m, next)

\* C13: the centre of every accepted room is reached from the centre of
\* the first one over 4-adjacent non-blocked tiles, whichever way the
\* corridors turned.  It is stated of the map between two iterations of
\* the loop of make_map and of the map it returns.
C13_Connected ==
    (gen.phase \in {"room", "returned"} /\ rooms /= <<>>) =>
        /\ ~map[Center(rooms[1])].blocked
        /\ \A k \in 1 .. Len(rooms) :
               Center(rooms[k]) \in Flood(map, {Center(rooms[1])})

\* three rooms were accepted and the third stands in another column and
\* another row than the first
C13_Witness ==
    /\ gen.phase = "returned" /\ Len(rooms) = 3
    /\ Center(rooms[3])[1] /= Center(rooms[1])[1]
    /\ Center(rooms[3])[2] /= Center(rooms[1])[2]

\* a step of one of the two loops of place_objects
Placing == gen.phase \in {"monsters", "items"} /\ gen.left > 0

\* C14: place_objects puts a monster or an item only on a tile that is
\* not blocked and that no blocking entity holds at that time; a sample
\* that is rejected is not drawn again, so a room may get fewer entities
\* than were drawn.
C14_PlacedOnFreeTiles ==
    [][Placing =>
         /\ gen'.left = gen.left - 1
         /\ \/ objects' = objects
            \/ /\ Len(objects') = Len(objects) + 1
               /\ SubSeq(objects', 1, Len(objects)) = objects
               /\ LET new == objects'[Len(objects')]
                  IN  /\ Pos(new) \in Interior(gen.room)
                      /\ ~map[Pos(new)].blocked
                      /\ \A i \in Indices(objects) :
                             ~(objects[i].blocks /\ Pos(objects[i]) = Pos(new))
    ]_vars

\* the entities that stand inside a room
InRoom(room) == {i \in Indices(objects) : Pos(objects[i]) \in Interior(room)}

\* two monsters were drawn for a room and one sample was rejected: the
\* loop is over with one monster in the room
C14_Witness ==
    /\ gen.phase = "monsters" /\ gen.drawn = 2 /\ gen.left = 0
    /\ Cardinality({i \in InRoom(gen.room) : IsSome(objects[i].ai)}) = 1

\* an item was drawn for a room and its sample fell on a monster
C14_WitnessItem ==
    /\ gen.phase = "items" /\ gen.drawn = 1 /\ gen.left = 0
    /\ \A i \in InRoom(gen.room) : ~IsSome(objects[i].item)
    /\ \E i \in InRoom(gen.room) : IsSome(objects[i].ai)

\* the step of the loop that renders
Rendered == pc = "frame" /\ pc' = "keys"

\* C15: explored is a one-way latch.  No step clears it; a render sets it
\* for exactly the tiles that are visible at that render; no other step
\* sets it, make_map leaves every tile unexplored, and once make_map has
\* returned no other field of a tile changes.
C15_ExploredLatch ==
    [][/\ DOMAIN map' = MainTiles
       /\ \A t \in MainTiles :
            /\ map[t].explored => map'[t].explored
            /\ pc /= "make_map" =>
                   [map'[t] EXCEPT !.explored = map[t].explored] = map[t]
            /\ pc = "make_map" => ~map'[t].explored
            /\ Rendered => (map'[t].explored <=> (map[t].explored \/ t \in fov'))
            /\ ~Rendered => (map'[t].explored <=> map[t].explored)
    ]_vars

\* a tile that was seen earlier is out of the field of view and still
\* explored, and a tile next to it was never seen
C15_Witness ==
    /\ pc = "keys"
    /\ \E t \in MainTiles : map[t].explored /\ t \notin fov
    /\ \E t \in MainTiles : ~map[t].explored

\* a call of ai_take_turn on a monster the field of view holds, two tiles
\* or more from the player
ApproachCalled ==
    /\ pc = "call" /\ call'.op = "ai_take_turn"
    /\ Pos(objects[call'.i]) \in fov
    /\ Dist2(objects[call'.i], objects[PLAYER]) >= 4

\* n is d / sqrt(d2) rounded to the nearest integer, for |d| <= sqrt(d2):
\* 0 when |d| / sqrt(d2) < 1/2, else the sign of d
IsRounded(n, d, d2) ==
    /\ n = 0 <=> 4 * d * d < d2
    /\ n /= 0 => n = Sign(d)

\* C16 as amended: a visible monster two tiles or more from the player
\* does not attack; it tries the one step (round(dx/d), round(dy/d)),
\* which is one of the 8 directions and never (0, 0); it takes the step
\* when the destination is free and stays where it is when the
\* destination is obstructed.  At displacement (+-2, +-2) the step is the
\* diagonal toward the player.
C16_ApproachStep ==
    [][ApproachCalled =>
         LET mon == objects[call'.i]
             dx == objects[PLAYER].x - mon.x
             dy == objects[PLAYER].y - mon.y
             d2 == dx * dx + dy * dy
             sx == RoundedUnit(dx, d2)
             sy == RoundedUnit(dy, d2)
         IN  /\ pc' = "returned"
             /\ messages' = <<>>
             /\ objects'[PLAYER] = objects[PLAYER]
             /\ IsRounded(sx, dx, d2) /\ IsRounded(sy, dy, d2)
             /\ sx \in -1 .. 1 /\ sy \in -1 .. 1 /\ <<sx, sy>> /= <<0, 0>>
             /\ (Abs(dx) = 2 /\ Abs(dy) = 2) => (sx = Sign(dx) /\ sy = Sign(dy))
             /\ ~Obstructed(mon.x + sx, mon.y + sy) =>
                    objects' = Relocated(call'.i, sx, sy)
             /\ Obstructed(mon.x + sx, mon.y + sy) => objects' = objects
    ]_vars

\* C16 as stated: at displacement (+-2, +-2) the monster ends one diagonal
\* cell closer to the player.
C16_DiagonalStepTaken ==
    [][ApproachCalled =>
         LET mon == objects[call'.i]
             dx == objects[PLAYER].x - mon.x
             dy == objects[PLAYER].y - mon.y
         IN  (Abs(dx) = 2 /\ Abs(dy) = 2) =>
                 Pos(objects'[call'.i]) = <<mon.x + Sign(dx), mon.y + Sign(dy)>>
    ]_vars

\* the orc stood at (4, 4), in view, the player at (2, 2): the orc is now
\* at (3, 3) and nobody was attacked
C16_Witness ==
    /\ pc = "returned" /\ call.op = "ai_take_turn" /\ call.i = 2
    /\ Pos(call.before[2]) = <<4, 4>> /\ <<4, 4>> \in fov
    /\ Pos(objects[PLAYER]) = <<2, 2>> /\ Pos(objects[2]) = <<3, 3>>
    /\ messages = <<>>

\* the same with a troll on (3, 3): the orc is still at (4, 4)
C16_WitnessObstructed ==
    /\ pc = "returned" /\ call.op = "ai_take_turn" /\ call.i = 2
    /\ Pos(call.before[2]) = <<4, 4>> /\ <<4, 4>> \in fov
    /\ Pos(objects[PLAYER]) = <<2, 2>> /\ Pos(objects[3]) = <<3, 3>>
    /\ objects[3].blocks
    /\ Pos(objects[2]) = <<4, 4>>

\* C17: the first entity of the registry is the player, and the only one,
\* in every reachable state.
C17_PlayerFirst ==
    /\ Len(objects) >= 1
    /\ objects[PLAYER].name = "player"
    /\ objects[PLAYER].ai = None /\ objects[PLAYER].item = None
    /\ \A i \in Indices(objects) : i /= PLAYER => objects[i].name /= "player"

\* the potion at the second place was picked up and the orc, which was
\* last, has taken its place
C17_Witness ==
    /\ Len(inventory) = 1 /\ Len(objects) = 2
    /\ objects[2].name \in {"orc", "remains of orc"}
    /\ objects[PLAYER].name = "player"

\* C18: with a room budget of zero make_map returns a map whose every tile
\* is a wall, the registry holds the player alone, and the player still
\* stands where it was constructed, at (0, 0).
C18_NoRooms ==
    (gen.phase = "returned" /\ gen.max_rooms = 0) =>
        /\ \A t \in Tiles : map[t].blocked /\ map[t].block_sight
        /\ rooms = <<>>
        /\ Len(objects) = 1
        /\ objects[PLAYER] = NewPlayer
        /\ Pos(objects[PLAYER]) = <<0, 0>>

\* make_map has returned without entering its loop
C18_Witness ==
    /\ gen.phase = "returned" /\ gen.max_rooms = 0 /\ gen.done = 0
    /\ pc = "generated"

\* C19: once make_map has returned, no two entities with blocks = true
\* stand on the same tile; in particular no monster of the first room
\* stands on the player's spawn tile.
C19_NoSharedTile ==
    gen.phase = "returned" =>
        \A i, j \in Indices(objects) :
            (i /= j /\ objects[i].blocks /\ objects[j].blocks)
                => Pos(objects[i]) /= Pos(objects[j])

\* C20: whenever an AI entity is about to take its turn, the visibility it
\* consults agrees with the field of view computed from the position the
\* player has at that moment: its tile is in the one exactly when it is in
\* the other.
C20_FovOfTheMoment ==
    (pc = "ai" /\ IsSome(objects[ai_id].ai)) =>
        LET player == objects[PLAYER]
            now == compute_fov(map, player.x, player.y, TORCH_RADIUS)
        IN  (Pos(objects[ai_id]) \in fov) <=> (Pos(objects[ai_id]) \in now)

\* C21: at every render the visibility set in use, recomputed or kept from
\* the frame before, is the field of view of the position the player has
\* on that frame.
C21_CacheTransparent ==
    pc = "keys" =>
        fov = compute_fov(map, objects[PLAYER].x, objects[PLAYER].y, TORCH_RADIUS)

\* a frame rendered after a tick in which the player did not move, so that
\* the recompute was skipped
C21_Witness ==
    /\ pc = "keys" /\ player_action = "DidntTakeTurn"
    /\ previous_player_position = Pos(objects[PLAYER])
    /\ Pos(objects[PLAYER]) \in fov

Border ==
    {t \in MainTiles :
        t[1] \in {0, MainWidth - 1} \/ t[2] \in {0, MainHeight - 1}}

Steps == {-1, 0, 1} \X {-1, 0, 1}

\* C22: once a generation that accepted a room has returned, every entity
\* stands inside the map on a tile that is not blocked, the border of the
\* map is blocked, and every destination a move of the player or of a
\* monster can test (a neighbour of the mover's tile) is inside the map.
C22_InBounds ==
    (gen.phase = "returned" /\ Len(rooms) >= 1) =>
        /\ \A i \in Indices(objects) :
              /\ Pos(objects[i]) \in MainTiles
              /\ ~map[Pos(objects[i])].blocked
              /\ \A d \in Steps :
                    <<objects[i].x + d[1], objects[i].y + d[2]>> \in MainTiles
        /\ DOMAIN map = MainTiles
        /\ \A t \in Border : map[t].blocked
        /\ pc /= "panic"

\* the player, in the corner of the first room, has just tried to walk
\* west into the border of the map and stands where it stood
C22_Witness ==
    /\ pc = "ai" /\ key = "Left" /\ player_action = "TookTurn"
    /\ Pos(objects[PLAYER]) = <<1, 1>>
    /\ previous_player_position = <<1, 1>>
    /\ <<0, 1>> \in Border

\* the turn of an entity with an ai whose tile is not in the visibility set
UnseenTurn ==
    /\ pc = "ai" /\ IsSome(objects[ai_id].ai)
    /\ Pos(objects[ai_id]) \notin fov

\* C23: an AI entity whose tile is not in the visibility set does nothing
\* on its turn: no entity's position, hp, alive flag or component changes
\* and nothing is reported.
C23_UnseenDoesNothing ==
    [][UnseenTurn => /\ objects' = objects
                     /\ messages' = <<>>
                     /\ inventory' = inventory
                     /\ pc' /= "panic"]_vars

\* a pass has just ended with the turn of the third entity, a living
\* monster out of view, after the player had moved
C23_Witness ==
    /\ pc = "frame" /\ player_action = "TookTurn"
    /\ Len(objects) = 3 /\ IsSome(objects[3].ai)
    /\ Pos(objects[3]) \notin fov
    /\ Pos(objects[PLAYER]) /= previous_player_position

\* the turn of a monster in view and less than two tiles from the player
MeleeTurn ==
    /\ pc = "ai" /\ IsSome(objects[ai_id].ai)
    /\ Pos(objects[ai_id]) \in fov
    /\ Dist2(objects[ai_id], objects[PLAYER]) < 4

Struck(msgs) == HasMsg(msgs, TextAttack) \/ HasMsg(msgs, TextNoEffect)

\* C24: a monster in view and in melee range attacks the player exactly
\* when the player is alive with hp > 0, the attack is by that monster on
\* the player, and no step of the monsters' pass changes the Fighter or
\* the alive flag of any entity but the player.
C24_MeleeOnlyThePlayer ==
    [][/\ MeleeTurn =>
            LET mon == objects[ai_id]
                player == objects[PLAYER]
            IN  /\ Struck(messages') <=> (player.alive /\ Hp(player) > 0)
                /\ Struck(messages') =>
                      /\ messages'[1].who = mon.name
                      /\ messages'[1].whom = "player"
                      /\ Hp(objects'[PLAYER]) = Hp(player) - DamageOf(mon, player)
                /\ ~Struck(messages') => objects' = objects
                /\ Pos(objects'[ai_id]) = Pos(mon)
       /\ pc = "ai" =>
            \A i \in Indices(objects) \ {PLAYER} :
                /\ objects'[i].fighter = objects[i].fighter
                /\ objects'[i].alive = objects[i].alive
    ]_vars

\* a monster in view and next to the living player has just struck it
C24_Witness ==
    /\ pc \in {"ai", "frame"} /\ player_action = "TookTurn"
    /\ HasMsg(messages, TextAttack) /\ messages[1].whom = "player"
    /\ messages[1].who \in {"orc", "troll"}
    /\ Hp(objects[PLAYER]) < MainMaxHp

\* the second entity has just killed the player and the turn of the third,
\* a monster alive, in view and in melee range, comes next in the pass
C24_WitnessDead ==
    /\ pc = "ai" /\ ai_id = 3 /\ ~objects[PLAYER].alive
    /\ HasMsg(messages, TextYouDied)
    /\ Len(objects) = 3 /\ IsSome(objects[3].ai)
    /\ Pos(objects[3]) \in fov
    /\ Dist2(objects[3], objects[PLAYER]) < 4

AiHolders(objs) == {i \in Indices(objs) : IsSome(objs[i].ai)}

\* C25: the player's action comes first and, when it took a turn, is
\* followed by one pass that visits the registry's indices in increasing
\* order from the first to the last, each once; at each index the entity
\* acts, once, exactly if it holds an ai at that moment; an entity without
\* an ai (the remains of a monster the player has killed) does nothing, and
\* no entity ever gains an ai: make_map appends monsters and changes none
\* of the entities it has placed.
C25_TickOrder ==
    [][/\ (pc = "keys" /\ pc' /= "panic" /\ player_action' = "TookTurn") =>
            /\ pc' = "ai" /\ ai_id' = 1
            /\ AiHolders(objects') \subseteq AiHolders(objects)
       /\ (pc = "ai" /\ pc' /= "panic") =>
            /\ Len(objects') = Len(objects)
            /\ ai_id < Len(objects) => (pc' = "ai" /\ ai_id' = ai_id + 1)
            /\ ai_id = Len(objects) => pc' = "frame"
            /\ \A i \in Indices(objects) \ {ai_id, PLAYER} :
                  objects'[i] = objects[i]
            /\ IsSome(objects[ai_id].ai) =>
                  objects' = ai_take_turn(ai_id, map, objects, fov).objects
            /\ ~IsSome(objects[ai_id].ai) =>
                  (objects' = objects /\ messages' = <<>>)
            /\ AiHolders(objects') = AiHolders(objects)
       /\ pc' = "ai" => pc \in {"keys", "ai"}
       /\ pc /= "make_map" =>
            Cardinality(AiHolders(objects')) <= Cardinality(AiHolders(objects))
       /\ pc = "make_map" =>
            AiHolders(objects') \cap Indices(objects) = AiHolders(objects)
    ]_vars

\* a pass has ended in which the second entity, the remains of the orc the
\* player killed, did nothing and the third, the troll, struck the player
C25_Witness ==
    /\ pc = "frame" /\ player_action = "TookTurn"
    /\ Len(objects) = 3
    /\ objects[2].name = "remains of orc" /\ ~IsSome(objects[2].ai)
    /\ HasMsg(messages, TextAttack) /\ messages[1].who = "troll"

\* the player has just killed a monster and the pass of the same tick is
\* about to begin
C25_WitnessKill ==
    /\ pc = "ai" /\ ai_id = 1 /\ player_action = "TookTurn"
    /\ HasMsg(messages, TextIsDead)
    /\ \E i \in Indices(objects) : objects[i].name \in RemainsNames

TextPickedUp == "You picked up a {}!"

CountOf(seq, e) == Cardinality({k \in 1 .. Len(seq) : seq[k] = e})

Range(seq) == {seq[k] : k \in 1 .. Len(seq)}

\* the entities of `before` are those of `after` and `e` once more
WithoutOne(before, after, e) ==
    /\ Range(after) \subseteq Range(before)
    /\ \A o \in Range(before) :
          CountOf(before, o) = CountOf(after, o) + (IF o = e THEN 1 ELSE 0)

\* C26: once make_map has returned the registry never grows (make_map only
\* appends to it); it shrinks only in the pick-up branch of
\* handle_keys, by exactly one entity, which held an item, stood on the
\* player's tile and is now the last of the inventory, every other entity
\* being kept as it was; the remains of a monster are never removed and
\* never change again.
C26_RegistryFrame ==
    [][/\ pc /= "make_map" => Len(objects') <= Len(objects)
       /\ pc = "make_map" =>
            SubSeq(objects', 2, Len(objects)) = SubSeq(objects, 2, Len(objects))
       /\ Len(objects') < Len(objects) =>
            /\ pc = "keys" /\ key = "g" /\ objects[PLAYER].alive
            /\ Len(inventory') = Len(inventory) + 1
            /\ SubSeq(inventory', 1, Len(inventory)) = inventory
            /\ LET item == inventory'[Len(inventory')]
               IN  /\ IsSome(item.item)
                   /\ Pos(item) = Pos(objects[PLAYER])
                   /\ WithoutOne(objects, objects', item)
       /\ Len(inventory') > Len(inventory) => Len(objects') = Len(objects) - 1
       /\ \A i \in Indices(objects) :
            objects[i].name \in RemainsNames =>
                CountOf(objects', objects[i]) >= CountOf(objects, objects[i])
    ]_vars

\* the potion has just been picked up from a registry that held the
\* remains of the orc, which are still there
C26_Witness ==
    /\ pc = "frame" /\ key = "g" /\ HasMsg(messages, TextPickedUp)
    /\ Len(inventory) = 1 /\ inventory[1].name = "healing potion"
    /\ Len(objects) = 2 /\ objects[2].name = "remains of orc"

\* the number of options inventory_menu hands to menu
MenuOptions(inv) == IF Len(inv) = 0 THEN 1 ELSE Len(inv)

\* C27: the inventory never holds more than 26 entities, whatever key is
\* handled from an inventory within the capacity, so the menu is never
\* built with more than 26 options and handle_keys never aborts on the
\* menu's assertion.
C27_InventoryWithinCapacity ==
    /\ Len(inventory) <= InventoryCap
    /\ ~menu_panics(MenuOptions(inventory))
    /\ call.op = "handle_keys" => pc /= "panic"

\* the 26th item has just been picked up
C27_Witness ==
    /\ pc = "returned" /\ call.op = "handle_keys" /\ call.key = "g"
    /\ HasMsg(messages, TextPickedUp)
    /\ Len(inventory) = InventoryCap

\* the menu was opened on a full inventory and the use was cancelled
C27_WitnessMenu ==
    /\ pc = "returned" /\ call.op = "handle_keys" /\ call.key = "i"
    /\ HasMsg(messages, "Cancelled")
    /\ Len(inventory) = InventoryCap

\* C28: mut_two is never asked for the same index twice: the target a move
\* of the player finds is never the player itself, the entity whose ai turn
\* it is is never the player, the player never holds an ai, and no step
\* ends in the abort.
C28_MutTwoNeverAborts ==
    [][/\ (pc = "keys" /\ key \in MoveKeys /\ objects[PLAYER].alive) =>
            LET target_id == FirstFighterAt(objects,
                                 objects[PLAYER].x + KeyDx(key),
                                 objects[PLAYER].y + KeyDy(key))
            IN  IsSome(target_id) => ~mut_two_panics(PLAYER, Unwrap(target_id))
       /\ (pc = "ai" /\ IsSome(objects[ai_id].ai)) =>
            ~mut_two_panics(ai_id, PLAYER)
       /\ ~IsSome(objects[PLAYER].ai) /\ ~IsSome(objects'[PLAYER].ai)
       /\ pc' /= "panic"
    ]_vars

\* the player has just attacked a monster next to it
C28_Witness ==
    /\ pc = "ai" /\ ai_id = 1 /\ key \in MoveKeys
    /\ HasMsg(messages, TextAttack) /\ messages[1].who = "player"
    /\ messages[1].whom \in {"orc", "troll"}

\* a monster standing on the player's very tile has just attacked it
C28_WitnessAi ==
    /\ pc = "ai" /\ ai_id = 3
    /\ HasMsg(messages, TextAttack) /\ messages[1].who = "orc"
    /\ Pos(objects[2]) = Pos(objects[PLAYER]) /\ IsSome(objects[2].ai)

\* C29: an entity is alive exactly when it has a Fighter with hp > 0, and
\* an entity with an ai has a Fighter, is alive and blocks.
C29_AliveIffFighting ==
    \A i \in Indices(objects) :
        LET o == objects[i]
        IN  /\ o.alive <=> (IsSome(o.fighter) /\ Hp(o) > 0)
            /\ IsSome(o.ai) => (IsSome(o.fighter) /\ o.alive /\ o.blocks)

\* the player has killed the orc and has been killed by the troll, which
\* lives; all three kinds of entity are in the registry
C29_Witness ==
    /\ Len(objects) = 3
    /\ ~objects[PLAYER].alive /\ Hp(objects[PLAYER]) <= 0
    /\ objects[2].name = "remains of orc" /\ ~objects[2].alive
    /\ IsSome(objects[3].ai) /\ objects[3].alive /\ Hp(objects[3]) > 0

TextCancelled == "Cancelled"
TextFeelBetter == "Your wounds start to feel better!"

\* handle_keys is called with 'i' for a living player that can fight, and
\* the letter pressed in the menu names an item of the inventory
HealChosen ==
    /\ pc = "call" /\ call'.op = "handle_keys" /\ call'.key = "i"
    /\ objects[PLAYER].alive /\ IsSome(objects[PLAYER].fighter)
    /\ call'.letter \in 1 .. Len(inventory)
    /\ inventory[call'.letter].item = Some("Heal")

\* C30: using a Heal item: at full health the use is cancelled and neither
\* the registry nor the inventory changes; otherwise the player's hp
\* becomes min(hp + 4, max_hp), nothing else in the registry changes, and
\* the inventory loses exactly the item chosen, the others keeping their
\* order; either way the action is DidntTakeTurn.
C30_HealItem ==
    [][HealChosen =>
         LET player == objects[PLAYER]
             f == Unwrap(player.fighter)
             slot == call'.letter
         IN  /\ pc' = "returned"
             /\ player_action' = "DidntTakeTurn"
             /\ f.hp = f.max_hp =>
                   /\ objects' = objects
                   /\ inventory' = inventory
                   /\ HasMsg(messages', TextCancelled)
             /\ f.hp /= f.max_hp =>
                   /\ objects' = [objects EXCEPT ![PLAYER].fighter =
                         Some([f EXCEPT !.hp = Min(f.hp + 4, f.max_hp)])]
                   /\ Len(inventory') = Len(inventory) - 1
                   /\ \A k \in 1 .. Len(inventory') :
                         inventory'[k] = IF k < slot THEN inventory[k]
                                         ELSE inventory[k + 1]
                   /\ HasMsg(messages', TextFeelBetter)
                   /\ ~HasMsg(messages', TextCancelled)
    ]_vars

\* a player at 28 of 30 hit points has used the third of 25 potions, with
\* the letter c: it is at 30, the first two potions are where they were and
\* the fourth potion is now the third of 24
C30_Witness ==
    /\ pc = "returned" /\ call.op = "handle_keys" /\ call.key = "i"
    /\ call.letter = 3
    /\ HasMsg(messages, TextFeelBetter)
    /\ Hp(objects[PLAYER]) = 30
    /\ Len(inventory) = InventoryCap - 2
    /\ inventory[1] = Potions(4)[1] /\ inventory[2] = Potions(4)[2]
    /\ inventory[3] = Potions(4)[4] /\ inventory[3] /= Potions(4)[3]
    /\ inventory[InventoryCap - 2] = Potions(InventoryCap - 1)[InventoryCap - 1]

\* a player at 28 of 30 hit points has used the first of 26 potions: it is
\* at 30, and the second potion is now the first of 25
C30_WitnessFirst ==
    /\ pc = "returned" /\ call.op = "handle_keys" /\ call.key = "i"
    /\ call.letter = 1
    /\ HasMsg(messages, TextFeelBetter)
    /\ Hp(objects[PLAYER]) = 30
    /\ Len(inventory) = InventoryCap - 1
    /\ inventory[1] = Potions(2)[2]

\* the last of 26 potions was used, with the letter z
C30_WitnessLast ==
    /\ pc = "returned" /\ call.op = "handle_keys" /\ call.key = "i"
    /\ call.letter = InventoryCap
    /\ HasMsg(messages, TextFeelBetter)
    /\ Len(inventory) = InventoryCap - 1
    /\ inventory = Potions(InventoryCap - 1)

\* the letter z was pressed on 25 potions: no item has that letter, nothing
\* is used
C30_WitnessNoSuchItem ==
    /\ pc = "returned" /\ call.op = "handle_keys" /\ call.key = "i"
    /\ call.letter = InventoryCap
    /\ inventory = Potions(InventoryCap - 1)
    /\ messages = <<>>
    /\ IsSome(objects[PLAYER].fighter) /\ Hp(objects[PLAYER]) = 28

\* a player at 1 hit point has used the second potion and is at 5
C30_WitnessBelow ==
    /\ pc = "returned" /\ call.op = "handle_keys" /\ call.key = "i"
    /\ call.letter = 2
    /\ HasMsg(messages, TextFeelBetter)
    /\ Hp(objects[PLAYER]) = 5
    /\ inventory[1] = Potions(1)[1] /\ inventory[2] = Potions(3)[3]

\* a player at full health chose a potion: cancelled, nothing used
C30_WitnessCancelled ==
    /\ pc = "returned" /\ call.op = "handle_keys" /\ call.key = "i"
    /\ call.letter = 1
    /\ HasMsg(messages, TextCancelled)
    /\ IsSome(objects[PLAYER].fighter) /\ Hp(objects[PLAYER]) = 30
    /\ Len(inventory) = InventoryCap

\* a call of ai_take_turn for the entity at call'.i
AiTurnCalled == pc = "call" /\ call'.op = "ai_take_turn"

\* C31: whenever a turn of a monster changes its position, move_towards was
\* called, the monster was two tiles or more from the player, it is now
\* strictly nearer to the player, by exactly one step, and it does not
\* stand on the player's tile; a monster on the player's own tile never
\* moves; and no turn of a monster evaluates the normalisation of
\* move_towards with distance 0: every distance a call normalised by is
\* the distance between the monster and the player, and is 2 or more.
C31_ApproachNearer ==
    [][AiTurnCalled =>
         LET mon == objects[call'.i]
             now == objects'[call'.i]
             player == objects[PLAYER]
         IN  /\ \A k \in 1 .. Len(call'.normalised) :
                   /\ call'.normalised[k] > 0
                   /\ call'.normalised[k] = Dist2(mon, player)
                   /\ call'.normalised[k] >= 4
             /\ Pos(now) /= Pos(mon) =>
                   /\ call'.normalised /= <<>>
                   /\ Dist2(mon, player) >= 4
                   /\ Dist2(now, player) < Dist2(mon, player)
                   /\ Dist2(now, player) > 0
                   /\ Pos(now) /= Pos(objects'[PLAYER])
                   /\ Abs(now.x - mon.x) <= 1 /\ Abs(now.y - mon.y) <= 1
                   /\ ~map[Pos(now)].blocked
             /\ Dist2(mon, player) = 0 => Pos(now) = Pos(mon)
             /\ Pos(objects'[PLAYER]) = Pos(player)
    ]_vars

\* the orc stood at (4, 2), three tiles east and one south of the player
\* at (1, 1): the rounded step is (-1, 0) and the orc is now at (3, 2),
\* at squared distance 5 instead of 10
C31_Witness ==
    /\ pc = "returned" /\ call.op = "ai_take_turn" /\ call.i = 2
    /\ Pos(call.before[2]) = <<4, 2>> /\ Pos(objects[2]) = <<3, 2>>
    /\ Pos(objects[PLAYER]) = <<1, 1>>
    /\ Dist2(call.before[2], objects[PLAYER]) = 10
    /\ Dist2(objects[2], objects[PLAYER]) = 5
    /\ call.normalised = <<10>>

\* an orc on the player's own tile was called and stands where it stood
C31_WitnessSameTile ==
    /\ pc = "returned" /\ call.op = "ai_take_turn" /\ call.i = 2
    /\ Pos(call.before[2]) = Pos(objects[PLAYER])
    /\ Pos(objects[2]) = Pos(objects[PLAYER])
    /\ <<2, 2>> \in fov
    /\ call.normalised = <<>>

====
